---- MODULE Spec2Model ----
(***************************************************************************)
(* Model of assetman/compile.py: the manifest builder (dependency          *)
(* traversal, Merkle-style versioning, normalisation), the staleness       *)
(* decision of main, and the parallel compile phase with its commit of     *)
(* the manifest.                                                           *)
(*                                                                         *)
(* A digest (md5) is modelled as collision free: the digest of a           *)
(* concatenation of tokens is the bracketed sequence of the tokens, so two *)
(* digests are equal exactly when the byte strings fed to them are equal.  *)
(***************************************************************************)
EXTENDS Integers, Sequences, FiniteSets, TLC

\* Number of invocations of main in one behaviour.
MaxRuns == 2
\* Number of worker processes of a multiprocessing.Pool() (host parallelism).
NumWorkers == 2
\* The interpreter's recursion limit (sys.getrecursionlimit()), scaled down:
\* deeper than every acyclic tree of the model.
RecursionLimit == 5

(***************************************************************************)
(* The file tree.                                                          *)
(***************************************************************************)
Range(s) == {s[i] : i \in DOMAIN s}

StaticPaths == {"a.less", "b.less", "c.js", "d.js", "i.png"}

\* The templates found under the template directories, by extension.
TemplateList(ext) ==
    IF ext = "html" THEN <<"t1.html", "t2.html">> ELSE <<"t1.tpl", "t2.tpl">>

\* os.path.splitext(path)[1]
splitext(path) ==
    CASE path \in {"a.less", "b.less"} -> ".less"
      [] path \in {"c.js", "d.js"} -> ".js"
      [] path = "i.png" -> ".png"
      [] path \in {"t1.html", "t2.html"} -> ".html"
      [] path \in {"t1.tpl", "t2.tpl"} -> ".tpl"
      [] OTHER -> ""

\* The asset blocks a template can embed: identifier, target extension and
\* the source paths of the block.
BlockIds == {"B1", "B2", "B3"}
get_ext(b) == IF b \in {"B1", "B3"} THEN "js" ELSE "css"
get_paths(b) ==
    CASE b = "B1" -> <<"c.js">>
      [] b = "B2" -> <<"a.less">>
      [] OTHER -> <<"d.js">>
\* A compiler instance is represented by the identifier of its block.
get_hash(c) == c

VARIABLES
    tree,        \* the file tree: template extension, references, files present
    bytes,       \* bytes[p]: the contents of file p
    persisted,   \* the manifest on durable storage
    outfiles,    \* the compiled output directory: file name -> contents
    outdir,      \* whether the compiled output directory exists
    runs,        \* invocations of main so far
    pc,          \* main's position
    opts,        \* the options of the current run
    cached,      \* cached_manifest
    current,     \* current_manifest
    compilers,   \* the list of block compilers found in the templates
    to_compile,  \* the blocks scheduled for compilation
    out_of_sync, \* assets_out_of_sync
    tasks,       \* state of each pool task of the compile phase
    result,      \* how main ended: "none" (not yet), "0", "1" or "raised"
    exc,         \* the exception that ended main, if any
    log,         \* warnings logged by the extractors in this run
    hist         \* history: what the run started from, what it did, the last builds

vars == <<tree, bytes, persisted, outfiles, outdir, runs, pc, opts, cached, current,
          compilers, to_compile, out_of_sync, tasks, result, exc, log, hist>>

(***************************************************************************)
(* Manifests.                                                              *)
(***************************************************************************)
NoVersion == <<>>

EmptyMap == [x \in {} |-> <<>>]

\* Manifest(settings).make_empty_manifest()
make_empty_manifest == [assets |-> EmptyMap, blocks |-> EmptyMap]

empty_asset_entry == [version |-> NoVersion, versioned_path |-> NoVersion, deps |-> {}]

\* dict.setdefault(key, value)
setdefault(d, key, value) ==
    IF key \in DOMAIN d THEN d
    ELSE [k \in DOMAIN d \cup {key} |-> IF k = key THEN value ELSE d[k]]

\* md5 of the concatenation of the given tokens, hex encoded.
RECURSIVE Concat(_)
Concat(items) == IF items = <<>> THEN <<>> ELSE Head(items) \o Concat(Tail(items))
Digest(items) == <<"(">> \o Concat(items) \o <<")">>

get_file_hash(path) == <<bytes[path]>>

isfile(path) == path \in tree.present

\* iter_template_paths(template_dirs, template_extension): the templates on disk.
iter_template_paths == SelectSeq(TemplateList(tree.ext), isfile)

(***************************************************************************)
(* Extractors: first-level dependencies of a source file.  An extractor is *)
(* a generator; it is modelled by the sequence of events it produces:      *)
(* <<"yield", path>>, <<"warn", path>> (logging.warn of a missing          *)
(* dependency) and <<"raise", exception>>, which ends it.                  *)
(***************************************************************************)
\* The paths matched by static_finder in the source, made static paths.
RECURSIVE static_events(_)
static_events(refs) ==
    IF refs = <<>> THEN <<>>
    ELSE LET dep_path == Head(refs)
         IN  (IF isfile(dep_path) THEN << <<"yield", dep_path>> >>
                                  ELSE << <<"warn", dep_path>> >>)
             \o static_events(Tail(refs))

iter_static_deps(src_path) == static_events(tree.statics[src_path])

iter_js_deps(src_path) == iter_static_deps(src_path)

\* path + '.less'
AppendLess(path) ==
    CASE path = "a" -> "a.less"
      [] path = "b" -> "b.less"
      [] OTHER -> path

\* The target of an @import, as lines 224-229 resolve it.
import_target(src_path, path) ==
    IF splitext(src_path) = ".less" /\ splitext(path) = "" THEN AppendLess(path)
    ELSE path

RECURSIVE import_events(_, _)
import_events(src_path, targets) ==
    IF targets = <<>> THEN <<>>
    ELSE LET full_path == import_target(src_path, Head(targets))
         IN  IF isfile(full_path)
             THEN << <<"yield", full_path>> >> \o import_events(src_path, Tail(targets))
             ELSE << <<"raise", "AssertionError">> >>

Raises(events) == \E i \in DOMAIN events : events[i][1] = "raise"

iter_css_deps(src_path) ==
    LET imports == import_events(src_path, tree.imports[src_path])
    IN  IF Raises(imports) THEN imports ELSE imports \o iter_static_deps(src_path)

\* The argument of a static_url call is a sequence of characters (tokens); a
\* literal starts and ends with a quote.
quotes == {"'", "\""}

\* arg.strip(quotes)
strip(arg) ==
    LET inner == SelectSeq(arg, LAMBDA c : c \notin quotes)
    IN  IF inner = <<>> THEN "" ELSE inner[1]

RECURSIVE template_events(_)
template_events(args) ==
    IF args = <<>> THEN <<>>
    ELSE LET arg == Head(args)
         IN  IF arg[1] \notin quotes \/ arg[Len(arg)] \notin quotes
             THEN << <<"raise", "ParseError">> >>
             ELSE LET dep_path == strip(arg)
                  IN  (IF isfile(dep_path) THEN << <<"yield", dep_path>> >>
                                           ELSE << <<"warn", dep_path>> >>)
                      \o template_events(Tail(args))

\* iter_template_deps(static_dir, src_path): the static_url calls of a template.
iter_template_deps(src_path) == template_events(tree.calls[src_path])

\* iter_deps calls the extractor with three arguments; iter_template_deps
\* takes two, so for a .html source the call itself raises TypeError and
\* iter_template_deps never runs.
iter_deps(src_path) ==
    LET ext == splitext(src_path)
    IN  CASE ext = ".js" -> iter_js_deps(src_path)
          [] ext \in {".css", ".less", ".scss"} -> iter_css_deps(src_path)
          [] ext = ".html" -> << <<"raise", "TypeError">> >>
          [] OTHER -> <<>>

(***************************************************************************)
(* The dependency traversal.  m = [assets, log, exc, depth]; depth is the   *)
(* number of _build_manifest_helper frames on the stack.  A call that     *)
(* would exceed the recursion limit raises RuntimeError.                  *)
(***************************************************************************)
RECURSIVE build_manifest_helper(_, _)
RECURSIVE helper_deps(_, _, _)
build_manifest_helper(src_paths, m) ==
    IF m.exc # "none" \/ src_paths = <<>> THEN m
    ELSE LET src_path == Head(src_paths)
             m1 == [m EXCEPT !.assets = setdefault(@, src_path, empty_asset_entry)]
             m2 == helper_deps(src_path, iter_deps(src_path), m1)
         IN  build_manifest_helper(Tail(src_paths), m2)

\* The body of the loop over iter_deps(src_path), lines 263-265.
helper_deps(src_path, events, m) ==
    IF m.exc # "none" \/ events = <<>> THEN m
    ELSE LET e == Head(events)
         IN  CASE e[1] = "raise" -> [m EXCEPT !.exc = e[2]]
               [] e[1] = "warn" ->
                    helper_deps(src_path, Tail(events),
                                [m EXCEPT !.log = @ \cup {<<e[2], src_path>>}])
               [] OTHER ->
                    LET m1 == [m EXCEPT !.assets[src_path].deps = @ \cup {e[2]}]
                    IN  IF m.depth >= RecursionLimit
                        THEN [m1 EXCEPT !.exc = "RuntimeError"]
                        ELSE LET m2 == build_manifest_helper(<<e[2]>>,
                                           [m1 EXCEPT !.depth = @ + 1])
                             IN  helper_deps(src_path, Tail(events),
                                             [m2 EXCEPT !.depth = m.depth])

(***************************************************************************)
(* Versions.  order[path] is the order in which the set                    *)
(* manifest['assets'][path]['deps'] is iterated in this process.           *)
(***************************************************************************)
RECURSIVE version_dependency(_, _, _)
RECURSIVE version_deps(_, _, _)
\* The loop of lines 176-177: the assets with every dependency versioned.
version_deps(dep_paths, assets, order) ==
    IF dep_paths = <<>> THEN assets
    ELSE version_deps(Tail(dep_paths),
                      version_dependency(Head(dep_paths), assets, order), order)

DepVersions(dep_paths, assets) == [i \in DOMAIN dep_paths |-> assets[dep_paths[i]].version]

\* Mutant: the versioned path is the version alone, the extension is dropped.
version_dependency_noext(path, assets, order) ==
    IF assets[path].version # NoVersion THEN assets
    ELSE LET a1 == version_deps(order[path], assets, order)
             version == Digest(<<get_file_hash(path)>> \o DepVersions(order[path], a1))
         IN  [a1 EXCEPT ![path].version = version,
                        ![path].versioned_path = version]

\* The assets after version_dependency(path, manifest).
version_dependency(path, assets, order) ==
    IF assets[path].version # NoVersion THEN assets
    ELSE LET a1 == version_deps(order[path], assets, order)
             version == Digest(<<get_file_hash(path)>> \o DepVersions(order[path], a1))
         IN  [a1 EXCEPT ![path].version = version,
                        ![path].versioned_path = version \o <<splitext(path)>>]

\* The loop of lines 288-289 over the keys in the order src_paths.
RECURSIVE version_all(_, _, _)
version_all(src_paths, assets, order) ==
    IF src_paths = <<>> THEN assets
    ELSE version_all(Tail(src_paths),
                     version_dependency(Head(src_paths), assets, order), order)

\* normalize_manifest: deps become lists; every dep must have an entry and
\* the parent of a dep a version; every block present must have a version.
normalize_ok(assets, blocks) ==
    /\ \A parent \in DOMAIN assets : \A dep \in assets[parent].deps :
          dep \in DOMAIN assets /\ assets[parent].version # NoVersion
    /\ \A name_hash \in DOMAIN blocks : blocks[name_hash].version # NoVersion

\* What the assertions of normalize_manifest look at: the parents whose
\* version is asserted, the (parent, dep) pairs whose dep is looked up in
\* assets, and the blocks whose version is asserted.
normalize_checked(assets, blocks) ==
    [versions |-> {parent \in DOMAIN assets : assets[parent].deps # {}},
     deps |-> {pd \in (DOMAIN assets) \X StaticPaths : pd[2] \in assets[pd[1]].deps},
     blocks |-> DOMAIN blocks]

NothingChecked == [versions |-> {}, deps |-> {}, blocks |-> {}]

normalize_manifest(assets, order) ==
    [p \in DOMAIN assets |-> [assets[p] EXCEPT !.deps = order[p]]]

\* compiler.get_current_content_hash(manifest): the digest of the versions
\* of the block's paths.
get_current_content_hash(b, assets) == Digest(DepVersions(get_paths(b), assets))

block_entry(b, assets) ==
    LET content_hash == get_current_content_hash(b, assets)
    IN  [version |-> content_hash, versioned_path |-> content_hash \o <<".", get_ext(b)>>]

\* The 'blocks' section after the loop of lines 295-301.
update_blocks(cs, assets) ==
    [name_hash \in {get_hash(cs[i]) : i \in DOMAIN cs} |-> block_entry(name_hash, assets)]

(***************************************************************************)
(* Iteration orders of hash containers (sets, dicts): not fixed by the     *)
(* program, chosen by the process.                                         *)
(***************************************************************************)
\* Every enumeration of the finite set S as a sequence.
Orderings(S) ==
    {s \in [1..Cardinality(S) -> S] : \A i, j \in DOMAIN s : s[i] = s[j] => i = j}

\* Every choice of an iteration order for each entry's deps set.
RECURSIVE DepOrders(_, _)
DepOrders(keys, assets) ==
    IF keys = {} THEN {EmptyMap}
    ELSE LET k == CHOOSE x \in keys : TRUE
         IN  {[p \in DOMAIN f \cup {k} |-> IF p = k THEN s ELSE f[p]] :
                 f \in DepOrders(keys \ {k}, assets), s \in Orderings(assets[k].deps)}

CanonPaths ==
    <<"t1.html", "t2.html", "t1.tpl", "t2.tpl", "a.less", "b.less", "c.js", "d.js", "i.png">>
Rotate(s, k) == [i \in DOMAIN s |-> s[((i - 1 + k) % Len(s)) + 1]]
Reverse(s) == [i \in DOMAIN s |-> s[Len(s) + 1 - i]]
\* Iteration orders of the keys of manifest['assets'] that are explored: the
\* rotations of one enumeration and of its reverse.
KeyOrders(keys) ==
    LET base == SelectSeq(CanonPaths, LAMBDA x : x \in keys)
    IN  IF keys = {} THEN {<<>>}
        ELSE {Rotate(base, k) : k \in 0..(Len(base) - 1)}
             \cup {Rotate(Reverse(base), k) : k \in 0..(Len(base) - 1)}

(***************************************************************************)
(* The staleness decision of main.                                         *)
(***************************************************************************)
\* build_compilers: the compilers of every template, in template order.
RECURSIVE build_compilers(_)
build_compilers(paths) ==
    IF paths = <<>> THEN <<>>
    ELSE tree.blocks[Head(paths)] \o build_compilers(Tail(paths))

\* Mutant: the list of compilers is scheduled as found, duplicates included.
all_compilers(cs) == cs

\* dict((c.get_hash(), c) for c in compilers).values()
RECURSIVE unique_compilers(_)
unique_compilers(cs) ==
    IF cs = <<>> THEN <<>>
    ELSE LET rest == unique_compilers(Tail(cs))
         IN  IF \E i \in DOMAIN rest : get_hash(rest[i]) = get_hash(Head(cs))
             THEN rest ELSE <<Head(cs)>> \o rest

\* compiler.needs_compile(cached_manifest, current_manifest): some path of
\* the block is absent from the cached manifest or has another version there.
needs_compile(b, cachedm, currentm) ==
    \E i \in DOMAIN get_paths(b) :
        LET path == get_paths(b)[i]
        IN  \/ path \notin DOMAIN cachedm.assets
            \/ cachedm.assets[path].version # currentm.assets[path].version

\* Mutant: the force flag is not looked at.
select_stale_only(cs, force, cachedm, currentm) ==
    SelectSeq(cs, LAMBDA c : needs_compile(c, cachedm, currentm))

\* Lines 368-371.
select_to_compile(cs, force, cachedm, currentm) ==
    IF force THEN cs
    ELSE SelectSeq(cs, LAMBDA c : needs_compile(c, cachedm, currentm))

\* Mutant: the cached version is compared with the current versioned path.
assets_in_sync_path(asset, cachedm, currentm) ==
    IF asset \notin DOMAIN cachedm.assets THEN FALSE
    ELSE IF cachedm.assets[asset].version # currentm.assets[asset].versioned_path THEN FALSE
    ELSE TRUE

\* Lines 375-382.
assets_in_sync(asset, cachedm, currentm) ==
    IF asset \notin DOMAIN cachedm.assets THEN FALSE
    ELSE IF cachedm.assets[asset].version # currentm.assets[asset].version THEN FALSE
    ELSE TRUE

\* Mutant: an asset of the cached manifest that the current one lacks counts too.
assets_out_of_sync_both(cachedm, currentm) ==
    \/ ~ \A asset \in DOMAIN currentm.assets : assets_in_sync(asset, cachedm, currentm)
    \/ ~ (DOMAIN cachedm.assets \subseteq DOMAIN currentm.assets)

\* Line 384.
assets_out_of_sync(cachedm, currentm) ==
    ~ \A asset \in DOMAIN currentm.assets : assets_in_sync(asset, cachedm, currentm)

\* compiler.get_compiled_path(): the block's versioned path in the current
\* manifest, under the output directory.
get_compiled_path(b) == current.blocks[get_hash(b)].versioned_path

(***************************************************************************)
(* Initial states: a file tree, nothing built yet.                         *)
(***************************************************************************)
\* a.less imports b (b.less); a.less and b.less reference the image i.png and
\* c.js may; b.less and i.png may be absent from the disk.  The first
\* template embeds the blocks B1 (c.js) and B2 (a.less), the second one B1
\* again, and the first template calls static_url('i.png').  The kind k
\* varies this: in a "cyclic" tree b.less imports a (a.less) back; in a
\* "copy" tree the first template embeds B1 and B3 (d.js, a byte-for-byte
\* copy of c.js); in a "var" tree the first template calls static_url(v).
TreeOf(e, sc, pr, k) ==
    [ext |-> e,
     imports |-> [p \in StaticPaths |->
                     CASE p = "a.less" -> <<"b">>
                       [] p = "b.less" /\ k = "cyclic" -> <<"a">>
                       [] OTHER -> <<>>],
     statics |-> [p \in StaticPaths |->
                     CASE p \in {"a.less", "b.less"} -> <<"i.png">>
                       [] p = "c.js" -> sc [] OTHER -> <<>>],
     calls |-> [p \in Range(TemplateList(e)) |->
                     IF p # TemplateList(e)[1] THEN <<>>
                     ELSE IF k = "var" THEN << <<"v">> >>
                     ELSE << <<"'", "i.png", "'">> >>],
     present |-> {"a.less", "c.js"} \cup pr \cup Range(TemplateList(e))
                    \cup (IF k = "copy" THEN {"d.js"} ELSE {}),
     blocks |-> [p \in Range(TemplateList(e)) |->
                     IF p # TemplateList(e)[1] THEN <<"B1">>
                     ELSE IF k = "copy" THEN <<"B1", "B3">>
                     ELSE <<"B1", "B2">>]]

\* With the default template extension every tree behaves alike (see
\* iter_deps), so two are kept: one with a literal and one with a variable in
\* the static_url call.  One cyclic tree and one tree with a copied file.
Trees ==
    {TreeOf("tpl", sc, pr, "plain") :
        sc \in {<<>>, <<"i.png">>}, pr \in SUBSET {"b.less", "i.png"}}
    \cup {TreeOf("html", <<>>, {"b.less", "i.png"}, k) : k \in {"plain", "var"}}
    \cup {TreeOf("tpl", <<>>, {"b.less", "i.png"}, "cyclic")}
    \cup {TreeOf("tpl", <<>>, {"b.less", "i.png"}, "copy")}

\* The command lines explored: --force is only combined with valid settings.
Options ==
    {o \in [force : BOOLEAN, test : BOOLEAN,
            config : {"ok", "bad_prefix", "no_template_dir", "no_static_dir"}] :
        o.config # "ok" => ~o.force}

NoBuild == [valid |-> FALSE, bytes |-> EmptyMap, manifest |-> make_empty_manifest]

NoStarts == [b \in BlockIds |-> 0]

Init ==
    /\ tree \in Trees
    /\ bytes = [p \in tree.present |-> IF p = "d.js" THEN "c.js" ELSE p]
    /\ persisted = make_empty_manifest
    /\ outfiles = EmptyMap
    /\ outdir = FALSE
    /\ runs = 0
    /\ pc = "idle"
    /\ opts = [force |-> FALSE, test |-> FALSE, config |-> "ok"]
    /\ cached = make_empty_manifest
    /\ current = make_empty_manifest
    /\ compilers = <<>>
    /\ to_compile = <<>>
    /\ out_of_sync = FALSE
    /\ tasks = <<>>
    /\ result = "none"
    /\ exc = "none"
    /\ log = {}
    /\ hist = [start_manifest |-> make_empty_manifest, start_outfiles |-> EmptyMap,
               built |-> FALSE, wrote |-> FALSE, started |-> NoStarts, edited |-> FALSE,
               checked |-> NothingChecked, last |-> NoBuild, prev |-> NoBuild]

(***************************************************************************)
(* main.                                                                   *)
(***************************************************************************)
\* main ends: it returns status "0" or "1" (sys.exit(1) counts as "1"), or an
\* exception it does not catch leaves it ("raised"); e is the exception met.
Return(status, e) ==
    /\ pc' = "done"
    /\ result' = status
    /\ exc' = e

\* Lines 313-337: a new process runs main; the settings are checked, the
\* output directory made, the cached manifest loaded.
MainStart(o) ==
    /\ pc \in {"idle", "done"}
    /\ runs < MaxRuns
    /\ runs' = runs + 1
    /\ opts' = o
    /\ current' = make_empty_manifest
    /\ compilers' = <<>>
    /\ to_compile' = <<>>
    /\ out_of_sync' = FALSE
    /\ tasks' = <<>>
    /\ log' = {}
    /\ hist' = [hist EXCEPT !.start_manifest = persisted, !.start_outfiles = outfiles,
                            !.built = FALSE, !.wrote = FALSE, !.started = NoStarts,
                            !.edited = FALSE, !.checked = NothingChecked]
    /\ outdir' = (outdir \/ (o.config # "bad_prefix" /\ ~o.test))
    /\ IF o.config = "ok"
       THEN /\ cached' = persisted
            /\ pc' = "build"
            /\ result' = "none"
            /\ exc' = "none"
       ELSE /\ cached' = make_empty_manifest
            /\ Return("1", IF o.config = "bad_prefix" THEN "SystemExit" ELSE "none")
    /\ UNCHANGED <<tree, bytes, persisted, outfiles>>

\* build_manifest, lines 271-285: the compilers of the templates, the root
\* paths in the order list(set(paths)) gives them, the traversal.
ResolveDeps ==
    /\ pc = "build"
    /\ LET paths == iter_template_paths
           cs == build_compilers(paths)
           roots == Range(paths) \cup UNION {Range(get_paths(cs[i])) : i \in DOMAIN cs}
       IN  \E src_paths \in Orderings(roots) :
             LET m == build_manifest_helper(src_paths,
                          [assets |-> EmptyMap, log |-> {}, exc |-> "none",
                           depth |-> 1])
             IN  /\ compilers' = cs
                 /\ log' = m.log
                 /\ IF m.exc = "none"
                    THEN /\ current' = [assets |-> m.assets, blocks |-> EmptyMap]
                         /\ pc' = "version"
                         /\ UNCHANGED <<result, exc>>
                    ELSE /\ current' = current
                         /\ IF m.exc \in {"ParseError", "DependencyError"}
                            THEN Return("1", m.exc)
                            ELSE Return("raised", m.exc)
    /\ UNCHANGED <<tree, bytes, persisted, outfiles, outdir, runs, opts, cached,
                   to_compile, out_of_sync, tasks, hist>>

\* build_manifest, lines 287-303: the version pass, normalisation, the
\* blocks section.
VersionPass ==
    /\ pc = "version"
    /\ \E src_paths \in KeyOrders(DOMAIN current.assets) :
       \E order \in DepOrders(DOMAIN current.assets, current.assets) :
         LET versioned == version_all(src_paths, current.assets, order)
             built == [assets |-> normalize_manifest(versioned, order),
                       blocks |-> update_blocks(compilers, versioned)]
         IN  IF normalize_ok(versioned, current.blocks)
             THEN /\ current' = built
                  /\ pc' = "plan"
                  /\ hist' = [hist EXCEPT !.built = TRUE, !.prev = hist.last,
                                          !.checked = normalize_checked(versioned,
                                                                        current.blocks),
                                          !.last = [valid |-> TRUE, bytes |-> bytes,
                                                    manifest |-> built]]
                  /\ UNCHANGED <<result, exc>>
             ELSE /\ Return("raised", "AssertionError")
                  /\ UNCHANGED <<current, hist>>
    /\ UNCHANGED <<tree, bytes, persisted, outfiles, outdir, runs, opts, cached,
                   compilers, to_compile, out_of_sync, tasks, log>>

\* Mutant: the check-only flag is not looked at.
DecideAndCompile ==
    /\ pc = "plan"
    /\ LET unique == unique_compilers(compilers)
           tc == select_to_compile(unique, opts.force, cached, current)
           oos == assets_out_of_sync(cached, current)
       IN  /\ compilers' = unique
           /\ to_compile' = tc
           /\ out_of_sync' = oos
           /\ IF tc # <<>> \/ oos
              THEN /\ tasks' = [i \in DOMAIN tc |-> "queued"]
                   /\ pc' = "wait"
                   /\ UNCHANGED <<result, exc>>
              ELSE Return("0", "none") /\ tasks' = tasks
    /\ UNCHANGED <<tree, bytes, persisted, outfiles, outdir, runs, opts, cached,
                   current, log, hist>>

\* Lines 351-397: the unique compilers, what to compile, whether the assets
\* are out of sync, and what follows: nothing to do, the check-only answer,
\* or the compile phase (a pool, one task per scheduled block).
Decide ==
    /\ pc = "plan"
    /\ LET unique == unique_compilers(compilers)
           tc == select_to_compile(unique, opts.force, cached, current)
           oos == assets_out_of_sync(cached, current)
       IN  /\ compilers' = unique
           /\ to_compile' = tc
           /\ out_of_sync' = oos
           /\ IF tc # <<>> \/ oos
              THEN IF opts.test
                   THEN Return("1", "none") /\ tasks' = tasks
                   ELSE /\ tasks' = [i \in DOMAIN tc |-> "queued"]
                        /\ pc' = "wait"
                        /\ UNCHANGED <<result, exc>>
              ELSE Return("0", "none") /\ tasks' = tasks
    /\ UNCHANGED <<tree, bytes, persisted, outfiles, outdir, runs, opts, cached,
                   current, log, hist>>

(***************************************************************************)
(* The compile phase: pool workers run CompileWorker on the tasks.         *)
(***************************************************************************)
Running == {i \in DOMAIN tasks : tasks[i] = "open"}

\* Line 92: a worker takes a task and opens the block's output file for
\* writing, which creates or truncates it.
WorkerOpen(i) ==
    /\ tasks[i] = "queued"
    /\ Cardinality(Running) < NumWorkers
    /\ tasks' = [tasks EXCEPT ![i] = "open"]
    /\ LET path == get_compiled_path(to_compile[i])
       IN  outfiles' = [f \in DOMAIN outfiles \cup {path} |->
                           IF f = path THEN "" ELSE outfiles[f]]
    /\ hist' = [hist EXCEPT !.started[get_hash(to_compile[i])] = @ + 1]
    /\ UNCHANGED <<tree, bytes, persisted, outdir, runs, pc, opts, cached, current,
                   compilers, to_compile, out_of_sync, result, exc, log>>

\* Line 93, compiler.compile returns: the compiled bytes are written.
WorkerWrite(i) ==
    /\ tasks[i] = "open"
    /\ tasks' = [tasks EXCEPT ![i] = "done"]
    /\ outfiles' = [outfiles EXCEPT ![get_compiled_path(to_compile[i])] =
                        get_hash(to_compile[i])]
    /\ UNCHANGED <<tree, bytes, persisted, outdir, runs, pc, opts, cached, current,
                   compilers, to_compile, out_of_sync, result, exc, log, hist>>

\* Line 93, compiler.compile raises CompileError.
WorkerFail(i) ==
    /\ tasks[i] = "open"
    /\ tasks' = [tasks EXCEPT ![i] = "failed"]
    /\ UNCHANGED <<tree, bytes, persisted, outfiles, outdir, runs, pc, opts, cached,
                   current, compilers, to_compile, out_of_sync, result, exc, log, hist>>

\* What map_async(...).get() waits for before it returns normally.
AllCompiled == \A i \in DOMAIN tasks : tasks[i] = "done"

\* Mutant: the manifest is written once every task has ended, failed or not.
CommitDespiteFailure ==
    /\ pc = "wait"
    /\ \A i \in DOMAIN tasks : tasks[i] \in {"done", "failed"}
    /\ persisted' = current
    /\ hist' = [hist EXCEPT !.wrote = TRUE]
    /\ Return("0", "none")
    /\ UNCHANGED <<tree, bytes, outfiles, outdir, runs, opts, cached, current,
                   compilers, to_compile, out_of_sync, tasks, log>>

\* Mutant: get() returns only when at least one task was submitted.
CommitSomeCompiled ==
    /\ pc = "wait"
    /\ tasks # <<>>
    /\ AllCompiled
    /\ persisted' = current
    /\ hist' = [hist EXCEPT !.wrote = TRUE]
    /\ Return("0", "none")
    /\ UNCHANGED <<tree, bytes, outfiles, outdir, runs, opts, cached, current,
                   compilers, to_compile, out_of_sync, tasks, log>>

\* Lines 397, 408-410: get() returns, the manifest is written, main returns 0.
Commit ==
    /\ pc = "wait"
    /\ AllCompiled
    /\ persisted' = current
    /\ hist' = [hist EXCEPT !.wrote = TRUE]
    /\ Return("0", "none")
    /\ UNCHANGED <<tree, bytes, outfiles, outdir, runs, opts, cached, current,
                   compilers, to_compile, out_of_sync, tasks, log>>

\* Lines 398-403: get() raises the CompileError of a failed task.
CatchCompileError ==
    /\ pc = "wait"
    /\ \E i \in DOMAIN tasks : tasks[i] = "failed"
    /\ Return("1", "CompileError")
    /\ UNCHANGED <<tree, bytes, persisted, outfiles, outdir, runs, opts, cached,
                   current, compilers, to_compile, out_of_sync, tasks, log, hist>>

\* Lines 404-406: KeyboardInterrupt while main waits in get().
Interrupt ==
    /\ pc = "wait"
    /\ Return("1", "KeyboardInterrupt")
    /\ UNCHANGED <<tree, bytes, persisted, outfiles, outdir, runs, opts, cached,
                   current, compilers, to_compile, out_of_sync, tasks, log, hist>>

(***************************************************************************)
(* The environment: a file is edited or deleted between two runs.          *)
(***************************************************************************)
\* The files edited: the first template and the static files below a.less.
EditablePaths == tree.present \cap {TemplateList(tree.ext)[1], "b.less", "c.js", "i.png"}

EditFile(p) ==
    /\ pc = "done"
    /\ runs < MaxRuns
    /\ ~hist.edited
    /\ bytes' = [bytes EXCEPT ![p] = IF @ = p THEN "edited" ELSE p]
    /\ hist' = [hist EXCEPT !.edited = TRUE]
    /\ UNCHANGED <<tree, persisted, outfiles, outdir, runs, pc, opts, cached, current,
                   compilers, to_compile, out_of_sync, tasks, result, exc, log>>

\* The files deleted: the second template, which embeds no block of its own.
DeletablePaths == tree.present \cap {TemplateList(tree.ext)[2]}

DeleteFile(p) ==
    /\ pc = "done"
    /\ runs < MaxRuns
    /\ ~hist.edited
    /\ tree' = [tree EXCEPT !.present = @ \ {p}]
    /\ bytes' = [q \in DOMAIN bytes \ {p} |-> bytes[q]]
    /\ hist' = [hist EXCEPT !.edited = TRUE]
    /\ UNCHANGED <<persisted, outfiles, outdir, runs, pc, opts, cached, current,
                   compilers, to_compile, out_of_sync, tasks, result, exc, log>>

Next ==
    \/ \E o \in Options : MainStart(o)
    \/ ResolveDeps
    \/ VersionPass
    \/ Decide
    \/ \E i \in DOMAIN tasks : WorkerOpen(i)
    \/ \E i \in DOMAIN tasks : WorkerWrite(i)
    \/ \E i \in DOMAIN tasks : WorkerFail(i)
    \/ Commit
    \/ CatchCompileError
    \/ Interrupt
    \/ \E p \in EditablePaths : EditFile(p)
    \/ \E p \in DeletablePaths : DeleteFile(p)

Spec == Init /\ [][Next]_vars

\* The scheduling of the compile phase: a pool worker takes a queued task when
\* it is free, a compile ends (it returns or raises), and get() returns or
\* raises once the result is ready.  Nothing makes the user start a run, edit
\* a file or interrupt.
FairSpec ==
    /\ Spec
    /\ WF_vars(\E i \in DOMAIN tasks : WorkerOpen(i))
    /\ WF_vars(\E i \in DOMAIN tasks : WorkerWrite(i) \/ WorkerFail(i))
    /\ WF_vars(Commit \/ CatchCompileError)

(***************************************************************************)
(* Properties.                                                             *)
(***************************************************************************)
\* The run has built its manifest and taken the decision of line 388.
Decided == hist.built /\ pc \in {"wait", "done"}

\* No pool task was started, no output file and no manifest written in this run.
NothingDone ==
    /\ tasks = <<>>
    /\ hist.started = NoStarts
    /\ outfiles = hist.start_outfiles
    /\ ~hist.wrote
    /\ persisted = hist.start_manifest

SomeFailed == \E i \in DOMAIN tasks : tasks[i] = "failed"

\* C1 (atomic commit): in a run in which a scheduled compile has failed with
\* CompileError the manifest on disk is the one the run started from,
\* current_manifest.write() is not performed and main returns 1; the manifest
\* is written only when every scheduled compile has succeeded.
AtomicCommit ==
    /\ SomeFailed =>
          /\ persisted = hist.start_manifest
          /\ ~hist.wrote
          /\ pc = "done" => result = "1"
    /\ ~hist.wrote => persisted = hist.start_manifest
    /\ hist.wrote => AllCompiled /\ persisted = current

AtomicCommitWitness ==
    /\ pc = "done" /\ exc = "CompileError" /\ result = "1"
    /\ SomeFailed
    /\ \E i \in DOMAIN tasks : tasks[i] = "done"
    /\ persisted # current

\* C2 (no-op idempotence): when the cached manifest equals the manifest just
\* built, no block needs a compile and force is off, main starts no compile,
\* writes no output file, does not write the manifest and returns 0.
NoOpIdempotence ==
    (/\ Decided
     /\ cached = current
     /\ ~opts.force
     /\ \A i \in DOMAIN compilers : ~needs_compile(compilers[i], cached, current))
    => (pc = "done" /\ result = "0" /\ NothingDone)

NoOpWitness ==
    /\ Decided /\ pc = "done" /\ result = "0"
    /\ cached = current /\ ~opts.force /\ ~opts.test
    /\ DOMAIN current.blocks = {"B1", "B2"}
    /\ outfiles # EmptyMap

\* C3 (order independence): the version of every asset entry is what the
\* digest gives for every iteration order of the entry's deps.
OrderIndependence ==
    pc = "plan" =>
        \A p \in DOMAIN current.assets :
            \A s \in Orderings(Range(current.assets[p].deps)) :
                Digest(<<get_file_hash(p)>> \o DepVersions(s, current.assets))
                    = current.assets[p].version

\* The entries that path depends on, directly or not, in the manifest m.
RECURSIVE Closure(_, _)
Closure(S, m) ==
    LET T == S \cup UNION {Range(m.assets[p].deps) : p \in S}
    IN  IF T = S THEN S ELSE Closure(T, m)
DependsOn(p, q, m) == q \in Closure(Range(m.assets[p].deps), m)

\* The files whose bytes differ between the last two builds.
Changed == {p \in DOMAIN bytes : hist.prev.bytes[p] # bytes[p]}
Version(m, p) == m.assets[p].version

\* C4 (content sensitivity): between two builds of a tree in which the bytes
\* of one leaf file changed, the version of the leaf and of every entry that
\* depends on it changes, and the version of every other entry does not.
ContentSensitivity ==
    (pc = "plan" /\ hist.prev.valid) =>
        \A leaf \in DOMAIN current.assets :
            (Changed = {leaf} /\ current.assets[leaf].deps = <<>>) =>
                \A p \in DOMAIN current.assets :
                    IF p = leaf \/ DependsOn(p, leaf, current)
                    THEN Version(current, p) # Version(hist.prev.manifest, p)
                    ELSE Version(current, p) = Version(hist.prev.manifest, p)

\* C5 (determinism): two builds of the same unchanged tree give the same
\* version and versioned path to every asset entry and every block entry.
Determinism ==
    (pc = "plan" /\ hist.prev.valid /\ hist.prev.bytes = bytes) =>
        /\ \A p \in DOMAIN current.assets :
              /\ current.assets[p].version = hist.prev.manifest.assets[p].version
              /\ current.assets[p].versioned_path
                    = hist.prev.manifest.assets[p].versioned_path
        /\ current.blocks = hist.prev.manifest.blocks

\* C6 (dedup): each block identifier is scheduled at most once and its
\* compile is started at most once in a run, however many templates embed it.
Dedup ==
    /\ \A i, j \in DOMAIN to_compile :
          get_hash(to_compile[i]) = get_hash(to_compile[j]) => i = j
    /\ \A b \in BlockIds : hist.started[b] <= 1
    /\ Decided => \A i, j \in DOMAIN compilers :
                      get_hash(compilers[i]) = get_hash(compilers[j]) => i = j

DedupWitness ==
    /\ LET found == build_compilers(iter_template_paths)
       IN  \E i, j \in DOMAIN found : i # j /\ found[i] = "B1" /\ found[j] = "B1"
    /\ pc = "done" /\ hist.wrote
    /\ hist.started["B1"] = 1
    /\ \E i \in DOMAIN to_compile : to_compile[i] = "B1" /\ tasks[i] = "done"

\* C7 (forced rebuild): with the force flag the blocks scheduled are all the
\* unique blocks found in the templates, stale or not.
ForcedRebuild ==
    (Decided /\ opts.force) =>
        /\ to_compile = compilers
        /\ Range(to_compile) = Range(build_compilers(iter_template_paths))

ForcedRebuildWitness ==
    /\ Decided /\ opts.force /\ pc = "wait"
    /\ \A i \in DOMAIN to_compile : ~needs_compile(to_compile[i], cached, current)
    /\ Len(to_compile) = 2

\* C8 as stated (check-only mode): with the test flag main starts no compile
\* and writes nothing, and it returns 1 exactly when a block is scheduled or an
\* asset is out of sync, 0 otherwise.
CheckOnlyAsStated ==
    (opts.test /\ runs > 0) =>
        /\ NothingDone
        /\ pc = "done" => /\ result = "1" <=> (to_compile # <<>> \/ out_of_sync)
                          /\ result # "1" => result = "0"

\* C8 as amended: with the test flag main starts no compile and writes
\* nothing; once the settings were accepted and the manifest built, it returns
\* 1 exactly when a block is scheduled or an asset is out of sync, 0 otherwise.
CheckOnly ==
    (opts.test /\ runs > 0) =>
        /\ NothingDone
        /\ Decided => /\ pc = "done"
                      /\ result = "1" <=> (to_compile # <<>> \/ out_of_sync)
                      /\ result # "1" => result = "0"

CheckOnlyWitness ==
    /\ opts.test /\ Decided /\ result = "0"
    /\ cached.assets # EmptyMap
    /\ outfiles # EmptyMap

\* C9 (interruption): once main has returned on a KeyboardInterrupt the
\* manifest is unwritten, the result is 1 and no worker goes on: no task is
\* started and no output file written afterwards.
Interrupted == pc = "done" /\ exc = "KeyboardInterrupt"
InterruptTearsDown ==
    [][Interrupted =>
          /\ result = "1" /\ ~hist.wrote /\ persisted = hist.start_manifest
          /\ Interrupted' => (outfiles' = outfiles /\ hist'.started = hist.started)]_vars

\* The references of the files the build reads to files absent from the disk.
MissingRefs ==
    {r \in (StaticPaths \X (tree.present \cap StaticPaths)) :
        /\ r[1] \notin tree.present
        /\ \/ r[1] \in Range(tree.statics[r[2]])
           \/ r[1] \in {import_target(r[2], t) : t \in Range(tree.imports[r[2]])}}

\* The traversal of this run is over: it returned or raised.
Traversed == pc = "version" \/ (pc = "done" /\ result = "raised")

\* C10 (missing dependency): a reference to a file absent from the disk
\* raises nothing; it is logged, is in no deps and has no entry.
MissingDepLeniency ==
    Traversed =>
        \A r \in MissingRefs :
            /\ pc = "version"
            /\ <<r[1], r[2]>> \in log
            /\ r[1] \notin DOMAIN current.assets
            /\ \A p \in DOMAIN current.assets : r[1] \notin current.assets[p].deps

\* The .html templates of the run in which a static_url call has an argument
\* that is not a quoted literal.
VarTemplates ==
    {p \in Range(iter_template_paths) :
        splitext(p) = ".html" /\ <<"raise", "ParseError">> \in Range(iter_template_deps(p))}

\* C11 (ParseError): when a .html template reached by the resolver has a
\* static_url call whose argument is not a quoted literal, the build fails
\* with ParseError: no manifest is built, main returns 1, no compile is run
\* and no manifest written.
ParseErrorAborts ==
    (runs > 0 /\ opts.config = "ok" /\ pc # "build" /\ VarTemplates # {}) =>
        /\ pc = "done" /\ exc = "ParseError" /\ result = "1"
        /\ ~hist.built
        /\ NothingDone

\* C12 (normalizer validation): in every manifest build_manifest returns,
\* validation has looked up every dependency of every asset entry in assets
\* and has asserted the version of every asset entry, the entries without
\* deps included, and of every block entry.
NormalizerValidates ==
    (hist.built /\ pc \in {"plan", "wait", "done"}) =>
        /\ \A p \in DOMAIN current.assets :
              /\ p \in hist.checked.versions
              /\ \A d \in Range(current.assets[p].deps) : <<p, d>> \in hist.checked.deps
        /\ \A b \in DOMAIN current.blocks : b \in hist.checked.blocks

\* The reference graph of the tree: what the source of a file refers to.
ExtractedRefs(p) ==
    CASE splitext(p) \in {".css", ".less", ".scss"} ->
             {import_target(p, t) : t \in Range(tree.imports[p])} \cup Range(tree.statics[p])
      [] splitext(p) = ".js" -> Range(tree.statics[p])
      [] splitext(p) = ".html" ->
             {strip(a) : a \in {c \in Range(tree.calls[p]) :
                                    c[1] \in quotes /\ c[Len(c)] \in quotes}}
      [] OTHER -> {}

\* The first-level dependencies of p that exist on disk.
ExistingRefs(p) == ExtractedRefs(p) \cap tree.present

\* The root paths: the templates and the paths of the blocks they embed.
Roots ==
    Range(iter_template_paths)
        \cup UNION {Range(get_paths(b)) : b \in Range(build_compilers(iter_template_paths))}

RECURSIVE Reach(_)
Reach(S) ==
    LET T == S \cup UNION {ExistingRefs(p) : p \in S}
    IN  IF T = S THEN S ELSE Reach(T)

Acyclic == \A p \in Reach(Roots) : p \notin Reach(ExistingRefs(p))

\* C13 (transitive closure): over an acyclic reference graph the traversal
\* returns, the keys of assets are then the roots and every path reachable
\* from them through dependencies that exist on disk, and the deps of an
\* entry are its first-level existing dependencies.
TransitiveClosure ==
    (Traversed /\ Acyclic) =>
        /\ pc = "version"
        /\ DOMAIN current.assets = Reach(Roots)
        /\ \A p \in DOMAIN current.assets :
              /\ current.assets[p].deps = ExistingRefs(p)
              /\ current.assets[p].deps \subseteq DOMAIN current.assets

\* C14 (cycle handling): when the reference graph reachable from the roots
\* has a cycle, the traversal ends with a DependencyError, which main reports
\* by returning 1; it does not recurse until the interpreter gives up.
CycleDetected ==
    (runs > 0 /\ opts.config = "ok" /\ pc # "build" /\ ~Acyclic) =>
        /\ pc = "done" /\ exc = "DependencyError" /\ result = "1"
        /\ ~hist.built

\* C15 (out-of-sync flag): the flag main computes is true exactly when some
\* asset of the current manifest is absent from the cached manifest or has
\* another version there; an asset only the cached manifest has does not
\* set it.
OutOfSyncFlag ==
    Decided =>
        (out_of_sync <=>
            \E p \in DOMAIN current.assets :
                \/ p \notin DOMAIN cached.assets
                \/ Version(cached, p) # Version(current, p))

OutOfSyncWitness ==
    /\ Decided /\ ~out_of_sync
    /\ current.assets # EmptyMap
    /\ DOMAIN cached.assets \ DOMAIN current.assets # {}

\* Every entry has a version, and its versioned path is the version followed
\* by the extension of the path.
AllVersioned(assets) ==
    \A p \in DOMAIN assets :
        /\ assets[p].version # NoVersion
        /\ assets[p].versioned_path = assets[p].version \o <<splitext(p)>>

\* C16 (version pass): whatever the iteration orders, after the version pass
\* every entry has a version and the versioned path made of it, and what an
\* entry got after the first k calls of the loop of lines 288-289 is what it
\* has at the end: no later call changes it.
VersionPassComplete ==
    /\ pc = "version" =>
          \A src_paths \in KeyOrders(DOMAIN current.assets) :
          \A order \in DepOrders(DOMAIN current.assets, current.assets) :
              LET final == version_all(src_paths, current.assets, order)
              IN  /\ AllVersioned(final)
                  /\ \A k \in 0..Len(src_paths) :
                        LET part == version_all(SubSeq(src_paths, 1, k),
                                                current.assets, order)
                        IN  \A p \in DOMAIN part :
                                part[p].version # NoVersion => part[p] = final[p]
    /\ (hist.built /\ pc \in {"plan", "wait", "done"}) => AllVersioned(current.assets)

VersionPassWitness ==
    /\ hist.built /\ pc = "plan"
    /\ Cardinality(DOMAIN current.assets) >= 6
    /\ \E p \in DOMAIN current.assets : Len(current.assets[p].deps) = 2

\* C17 (batch abort): once main has reported a compile failure, no compile
\* of another scheduled block is started.
FailureReported == pc = "done" /\ exc = "CompileError"
BatchAbort ==
    [][(FailureReported /\ FailureReported') => hist'.started = hist.started]_vars

\* A rebuild is needed and check-only mode is off: main has entered the
\* compile phase of lines 393-408.
RebuildNeeded == Decided /\ ~opts.test /\ (to_compile # <<>> \/ out_of_sync)

\* C18 as stated (rebuild completes): a run that needed a rebuild, with
\* check-only off and every scheduled compile a success, has written the
\* manifest and returned 0.
RebuildCompletesAsStated ==
    (RebuildNeeded /\ pc = "done" /\ AllCompiled) => (hist.wrote /\ result = "0")

\* C18 as amended: unless the user interrupts main while it waits, a run
\* that needs a rebuild with check-only off ends, and when every scheduled
\* compile succeeded it has written the current manifest and returned 0, also
\* when nothing was scheduled and only assets were out of sync.
RebuildCompletes ==
    /\ [](  (RebuildNeeded /\ pc = "done" /\ AllCompiled /\ exc # "KeyboardInterrupt")
          => (hist.wrote /\ result = "0" /\ persisted = current))
    /\ (RebuildNeeded /\ pc = "wait")
          ~> (pc = "done" /\ (\/ hist.wrote /\ result = "0" /\ persisted = current
                              \/ SomeFailed
                              \/ exc = "KeyboardInterrupt"))

RebuildCompletesWitness ==
    /\ RebuildNeeded /\ pc = "done"
    /\ to_compile = <<>> /\ out_of_sync
    /\ hist.wrote /\ result = "0" /\ persisted = current
    /\ hist.started = NoStarts

\* C19 (no partial output): after a block's compile has failed, the file at
\* the block's output path is as it was before the worker ran: absent if it
\* was absent, with the same contents otherwise.
NoPartialOutput ==
    \A i \in DOMAIN tasks :
        tasks[i] = "failed" =>
            LET path == get_compiled_path(to_compile[i])
            IN  IF path \in DOMAIN hist.start_outfiles
                THEN path \in DOMAIN outfiles /\ outfiles[path] = hist.start_outfiles[path]
                ELSE path \notin DOMAIN outfiles

\* C20 (no write race): two distinct blocks scheduled in one compile phase
\* have distinct output paths, so no two running workers write the same file.
NoWriteRace ==
    /\ \A i, j \in DOMAIN to_compile :
          i # j => get_compiled_path(to_compile[i]) # get_compiled_path(to_compile[j])
    /\ \A i, j \in Running :
          i # j => get_compiled_path(to_compile[i]) # get_compiled_path(to_compile[j])

====
